---- MODULE Spec2Model ----
(***************************************************************************)
(* The Argus Protocol core: the SORT tracker (src/src/engine/tracking.py), *)
(* the crowd analytics (src/src/engine/analytics.py) and the pipeline that *)
(* chains them (src/src/engine/core_pipeline.py).                          *)
(*                                                                         *)
(* Numbers.  IOU values and iou_threshold are in tenths (0.3 is 3).        *)
(* Densities are cell counts; the motion coherence is in whole degrees     *)
(* (a comparison x >= 40.0 of a real x is decided by its integer part).    *)
(* Sequences are 1-based: index k of the model is index k-1 of the code.   *)
(*                                                                         *)
(* The Kalman filter's floating-point geometry is not computed.  What the  *)
(* tracker's control flow reads from it is kept: the IOU matrix of a frame *)
(* (an input drawn from IouVals) and whether a track's state is finite.    *)
(***************************************************************************)
EXTENDS Integers, Sequences, FiniteSets, TLC

VARIABLES
    trackers,          \* Sort.trackers: sequence of track records
    count,             \* KalmanBoxTracker.count (class attribute)
    sort_frame_count,  \* Sort.frame_count
    ret,               \* rows returned by the last Sort.update
    pipe_frame_count,  \* ArgusCorePipeline.frame_count
    an_frame_count,    \* CrowdAnalytics.frame_count
    ke_history,        \* CrowdAnalytics.kinetic_energy_history
    ke_all,            \* history: the current_ke of every analyze_frame call
    outcome,           \* how the last process_frame ended
    snapshot,          \* analytics_data of the last process_frame that returned
    gt,                \* what the last Sort.get_trackers call did
    issued,            \* history: ids given to tracks so far
    last_deleted,      \* history: tracks removed by the last Sort.update
    last_dets,         \* history: the detections of the last Sort.update
    assoc_in,          \* input of associate_detections_to_trackers
    assoc_out,         \* its result
    status_in,         \* input of determine_status
    status_out,        \* its result
    density_in,        \* input of calculate_crowd_density
    density_out,       \* its result
    coherence_in,      \* input of calculate_motion_coherence
    coherence_out,     \* its result
    twin,              \* a second Sort object of the process, and the first
                       \* one as it is when it runs alone in its process
    convert_in,        \* input of convert_bbox_to_z
    convert_out,       \* convert_x_to_bbox of its result
    streams,           \* main.py: the state of each stream's handler
    active_connections, \* main.py: manager.active_connections
    inside,            \* streams inside core_pipeline.process_frame
    mutators           \* history: streams whose frames core_pipeline took

vars == <<trackers, count, sort_frame_count, ret, pipe_frame_count,
          an_frame_count, ke_history, ke_all, outcome, snapshot, gt, issued,
          last_deleted, last_dets, assoc_in, assoc_out, status_in, status_out,
          density_in, density_out, coherence_in, coherence_out, twin,
          convert_in, convert_out, streams, active_connections, inside,
          mutators>>

metricVars == <<density_in, density_out, coherence_in, coherence_out>>

convertVars == <<convert_in, convert_out>>

serverVars == <<streams, active_connections, inside, mutators>>

(***************************************************************************)
(* Bounds of the model.                                                    *)
(***************************************************************************)
MaxFrames == 7
MaxDets == 2
MaxTracks == 2
MaxIds == 3
\* Sort(max_age=..): frames a track is kept without a matching detection.
\* The pipeline passes 30; the model keeps it small, so that a track is
\* removed within MaxFrames frames.
max_age == 2
AssocMaxDets == 2
AssocMaxTracks == 3
MaxDensity == 8
\* Tracks in an input of calculate_crowd_density, of
\* calculate_motion_coherence.
MaxPersons == 3
MaxMovers == 3
\* analyze_frame calls of the warm-up runs, of the window runs, and the
\* frames of a window run in which somebody moves.
MaxWarmFrames == 10
MaxKeFrames == 47
MaxMoving == 2
MaxOverflowFrames == 5
MaxTwinFrames == 3
MaxStreams == 2
MaxServerFrames == 3

StreamIds == 1..MaxStreams

(***************************************************************************)
(* Configuration.                                                          *)
(***************************************************************************)
min_hits == 3
iou_threshold == 3
\* (width, height) in pixels; (rows, columns).
VIDEO_RESOLUTION == <<640, 480>>
DENSITY_GRID_SIZE == <<10, 10>>
DENSITY_THRESHOLD_WARNING == 4
DENSITY_THRESHOLD_CRITICAL == 6
COHERENCE_THRESHOLD_WARNING == 40
COHERENCE_THRESHOLD_CRITICAL == 65
KE_SPIKE_FACTOR == 2
KE_MOVING_AVG_WINDOW == 45
STATUS_NORMAL == "NORMAL"
STATUS_WARNING == "WARNING"
STATUS_CRITICAL == "CRITICAL"

\* IOU values in tenths: disjoint, below, at and above iou_threshold.
IouVals == {0, 2, 3, 5}
\* The same for the frames of the tracker: disjoint, at and above.
FrameIouVals == {0, 3, 5}
\* Bbox centres in pixels: left of, inside, on the cell borders of and
\* beyond the frame.
CentreXs == {0 - 1, 0, 63, 64, 640}
CentreYs == {0 - 1, 47, 48, 480}
\* Velocities in tenths of a pixel per frame: still, of speed 0.1, and of
\* speed 2 along the four axis directions.
Velocities == {<<0, 0>>, <<1, 0>>, <<20, 0>>, <<0, 20>>, <<0 - 20, 0>>,
               <<0, 0 - 20>>}
\* Values of current_ke: nobody moves, slow, fast.
KeVals == {0, 1, 5}
\* Coherence values in degrees around the two thresholds.
CornerVals == {0 - 3, 0, 1, 100}
WidthVals == {1, 2, 3, 50, 64}
HeightVals == {1, 2, 5, 48, 100}
CoherenceVals == {0, 39, 40, 41, 64, 65, 66, 81}

(***************************************************************************)
(* Helpers.                                                                *)
(***************************************************************************)
Min(a, b) == IF a < b THEN a ELSE b

\* np.arange(n), 1-based.
Arange(n) == [k \in 1..n |-> k]

\* list.pop(i) for the 0-based index i.
Pop(s, i) == [k \in 1..(Len(s) - 1) |-> IF k <= i THEN s[k] ELSE s[k + 1]]

PairLeq(p, q) == p[1] < q[1] \/ (p[1] = q[1] /\ p[2] <= q[2])

\* The pairs of S in row-major order.
RECURSIVE SortedPairs(_)
SortedPairs(S) ==
    IF S = {} THEN <<>>
    ELSE LET m == CHOOSE p \in S : \A q \in S : PairLeq(p, q)
         IN <<m>> \o SortedPairs(S \ {m})

(***************************************************************************)
(* Faulty variants of operators defined below.  A property that is about   *)
(* one of these operators fails when the variant takes its place.          *)
(***************************************************************************)
\* determine_status without the spike test.
StatusIgnoringSpike(density, coherence, ke_spike) ==
    IF \/ density >= DENSITY_THRESHOLD_CRITICAL
       \/ coherence >= COHERENCE_THRESHOLD_CRITICAL
    THEN STATUS_CRITICAL
    ELSE IF \/ density >= DENSITY_THRESHOLD_WARNING
            \/ coherence >= COHERENCE_THRESHOLD_WARNING
         THEN STATUS_WARNING
         ELSE STATUS_NORMAL

\* Line 302 without the hit_streak and frame_count tests.
ReportedFresh(trk, frame) == trk.time_since_update < 1

\* Line 302 without the frame_count test.
ReportedNoGrace(trk, frame) ==
    /\ trk.time_since_update < 1
    /\ trk.hit_streak >= min_hits

\* An id counter that is not incremented between the creations of a frame.
NextIdSame(cnt, k) == cnt

\* Line 306 with the removal one frame early.
DeadEarly(trk) == trk.time_since_update >= max_age

\* Line 302 with a streak one short of min_hits.
ReportedStreakEarly(trk, frame) ==
    /\ trk.time_since_update < 1
    /\ (trk.hit_streak >= min_hits - 1 \/ frame <= min_hits)

\* Line 306 with the removal one frame late.
DeadLate(trk) == trk.time_since_update > max_age + 1

\* Lines 173-174 left out.
RejectedNone(iou, mi, c) == <<>>

\* Line 172 never true.
LowIouNever(iou, m) == FALSE

(***************************************************************************)
(* associate_detections_to_trackers and linear_assignment.                 *)
(* iou[d][t] is iou_batch(detections, trackers)[d, t].                     *)
(***************************************************************************)
\* a = (iou_matrix > iou_threshold)
AboveThreshold(iou, nd, nt) ==
    {p \in (1..nd) \X (1..nt) : iou[p[1]][p[2]] > iou_threshold}

\* a.sum(1).max() == 1 and a.sum(0).max() == 1
UniqueAbove(iou, nd, nt) ==
    LET a == AboveThreshold(iou, nd, nt)
    IN /\ a # {}
       /\ \A p, q \in a : p # q => (p[1] # q[1] /\ p[2] # q[2])

\* The one-to-one assignments of min(nd, nt) pairs.
Matchings(nd, nt) ==
    {M \in SUBSET ((1..nd) \X (1..nt)) :
        /\ Cardinality(M) = Min(nd, nt)
        /\ \A p, q \in M : p # q => (p[1] # q[1] /\ p[2] # q[2])}

RECURSIVE TotalIou(_, _)
TotalIou(M, iou) ==
    IF M = {} THEN 0
    ELSE LET p == CHOOSE x \in M : TRUE
         IN iou[p[1]][p[2]] + TotalIou(M \ {p}, iou)

\* scipy's linear_sum_assignment(-iou_matrix): an assignment of least total
\* cost, rows ascending.  Which of several optima it returns is not fixed
\* by its contract: every optimum is a possible result.
LinearSumAssignment(iou, nd, nt) ==
    {SortedPairs(M) : M \in {X \in Matchings(nd, nt) :
        \A Y \in Matchings(nd, nt) : TotalIou(Y, iou) <= TotalIou(X, iou)}}

\* The ImportError fallback: min(shape) times the first global minimum of
\* the cost (np.argmin: first in row-major order), then its row and column
\* are set to infinity.
RECURSIVE GreedyAssignment(_, _, _, _)
GreedyAssignment(iou, rows, cols, n) ==
    IF n = 0 THEN <<>>
    ELSE LET cand == rows \X cols
             best == CHOOSE p \in cand : \A q \in cand :
                        \/ iou[p[1]][p[2]] > iou[q[1]][q[2]]
                        \/ (iou[p[1]][p[2]] = iou[q[1]][q[2]] /\ PairLeq(p, q))
         IN <<best>> \o GreedyAssignment(iou, rows \ {best[1]},
                                         cols \ {best[2]}, n - 1)

\* linear_assignment(-iou_matrix): the possible results.
linear_assignment(iou, nd, nt, hasScipy) ==
    IF hasScipy THEN LinearSumAssignment(iou, nd, nt)
    ELSE {GreedyAssignment(iou, 1..nd, 1..nt, Min(nd, nt))}

\* matched_indices (lines 151-158): the possible values.
MatchedIndices(iou, nd, nt, hasScipy) ==
    IF Min(nd, nt) > 0
    THEN IF UniqueAbove(iou, nd, nt)
         THEN {SortedPairs(AboveThreshold(iou, nd, nt))}
         ELSE linear_assignment(iou, nd, nt, hasScipy)
    ELSE {<<>>}

\* Line 172: an assigned pair is rejected when its IOU is below the threshold.
LowIou(iou, m) == iou[m[1]][m[2]] < iou_threshold

\* Lines 160-167: the indices (1..n) that are not in column c of mi.
NotIn(mi, c, n) ==
    SelectSeq(Arange(n), LAMBDA x : \A k \in DOMAIN mi : mi[k][c] # x)

\* Lines 173-174: the members of the rejected pairs, appended to the
\* unmatched lists.
Rejected(iou, mi, c) ==
    LET low == SelectSeq(mi, LAMBDA m : LowIou(iou, m))
    IN [k \in DOMAIN low |-> low[k][c]]

\* Lines 160-182 for one value mi of matched_indices.  assigned is a
\* history field: the pairs of matched_indices.
AssociationOf(iou, nd, nt, mi) ==
    [matches |-> SelectSeq(mi, LAMBDA m : ~LowIou(iou, m)),
     unmatched_detections |-> NotIn(mi, 1, nd) \o Rejected(iou, mi, 1),
     unmatched_trackers |-> NotIn(mi, 2, nt) \o Rejected(iou, mi, 2),
     assigned |-> mi]

\* associate_detections_to_trackers: the possible results.
associate_detections_to_trackers(iou, nd, nt, hasScipy) ==
    IF nt = 0
    THEN {[matches |-> <<>>, unmatched_detections |-> Arange(nd),
           unmatched_trackers |-> <<>>, assigned |-> <<>>]}
    ELSE {AssociationOf(iou, nd, nt, mi) :
            mi \in MatchedIndices(iou, nd, nt, hasScipy)}

(***************************************************************************)
(* KalmanBoxTracker.                                                       *)
(* A detection is [valid |-> b, huge |-> g]: b is whether its bbox has     *)
(* positive width and height.  For a bbox of zero height convert_bbox_to_z *)
(* divides by zero (numpy: inf, no exception), for one of zero width       *)
(* convert_x_to_bbox computes 0/0: the track's state is then not finite    *)
(* and its predicted bbox holds a NaN (the field finite is FALSE).         *)
(* g is whether the bbox is so large that area * aspect ratio exceeds the  *)
(* float32 range of the filter's state, e.g. [0, 0, 1e20, 1e10]: the state *)
(* is finite, and convert_x_to_bbox computes w = sqrt(inf) = inf and       *)
(* h = s / inf = 0, a bbox [-inf, y, inf, y] with no NaN in it (the field  *)
(* overflow is TRUE).                                                      *)
(* born, misses, run and matched are history fields, written by            *)
(* Sort.update's model: the frame that created the track, the number of    *)
(* consecutive frames, up to the last, in which no detection was matched   *)
(* to it, the number of consecutive frames, up to the last, in which one   *)
(* was, and the number of all frames in which one was.                     *)
(***************************************************************************)
\* self.id = KalmanBoxTracker.count, for the k-th tracker created in a frame
\* (the counter is incremented after each creation).
NextId(cnt, k) == cnt + k - 1

\* Faulty variant: a track that starts with one hit.
KalmanBoxTrackerOneHit(det, id, frame) ==
    [id |-> id, time_since_update |-> 0, hits |-> 1, hit_streak |-> 0,
     age |-> 0, finite |-> det.valid, overflow |-> det.huge, born |-> frame,
     misses |-> 0, run |-> 0, matched |-> 0]

\* Boxes are [x1, y1, x2, y2] with integer corners.  A measurement z is
\* [cx2, cy2, s, r]: cx2 and cy2 are twice the centre (x1 + w / 2. is a
\* half-integer), s is the area and r the aspect ratio w / h as the
\* fraction <<w, h>>.
Sqrt(n) == CHOOSE k \in 0..n : k * k <= n /\ (k + 1) * (k + 1) > n

\* KalmanBoxTracker.convert_bbox_to_z
convert_bbox_to_z(bbox) ==
    LET w == bbox.x2 - bbox.x1
        h == bbox.y2 - bbox.y1
    IN [cx2 |-> 2 * bbox.x1 + w,
        cy2 |-> 2 * bbox.y1 + h,
        s |-> w * h,
        r |-> <<w, h>>]

\* Faulty variant: h taken for w.
ConvertXToBboxSquare(x) ==
    LET w == Sqrt((x.s * x.r[1]) \div x.r[2])
        h == w
    IN [x1 |-> (x.cx2 - w) \div 2, y1 |-> (x.cy2 - h) \div 2,
        x2 |-> (x.cx2 + w) \div 2, y2 |-> (x.cy2 + h) \div 2]

\* KalmanBoxTracker.convert_x_to_bbox with score = None
convert_x_to_bbox(x) ==
    LET w == Sqrt((x.s * x.r[1]) \div x.r[2])
        h == x.s \div w
    IN [x1 |-> (x.cx2 - w) \div 2, y1 |-> (x.cy2 - h) \div 2,
        x2 |-> (x.cx2 + w) \div 2, y2 |-> (x.cy2 + h) \div 2]

\* KalmanBoxTracker.__init__
KalmanBoxTracker(det, id, frame) ==
    [id |-> id, time_since_update |-> 0, hits |-> 0, hit_streak |-> 0,
     age |-> 0, finite |-> det.valid, overflow |-> det.huge, born |-> frame,
     misses |-> 0, run |-> 0, matched |-> 0]

\* Faulty variant: update without line 64.
KalmanUpdateKeepTsu(trk, det) ==
    [trk EXCEPT !.hits = @ + 1,
                !.hit_streak = @ + 1,
                !.finite = @ /\ det.valid,
                !.overflow = @ \/ det.huge]

\* Faulty variant: update without line 66.
KalmanUpdateNoHits(trk, det) ==
    [trk EXCEPT !.time_since_update = 0,
                !.hit_streak = @ + 1,
                !.finite = @ /\ det.valid,
                !.overflow = @ \/ det.huge]

\* KalmanBoxTracker.update
KalmanUpdate(trk, det) ==
    [trk EXCEPT !.time_since_update = 0,
                !.hits = @ + 1,
                !.hit_streak = @ + 1,
                !.finite = @ /\ det.valid,
                !.overflow = @ \/ det.huge]

\* Faulty variant: predict without lines 84-85.
KalmanPredictNoReset(trk) ==
    [trk EXCEPT !.age = @ + 1,
                !.time_since_update = @ + 1]

\* Faulty variant: predict without line 83.
KalmanPredictNoAge(trk) ==
    [trk EXCEPT !.hit_streak = IF trk.time_since_update > 0 THEN 0 ELSE @,
                !.time_since_update = @ + 1]

\* KalmanBoxTracker.predict (cv2's KalmanFilter.predict raises nothing, so
\* the except branch is not taken).
KalmanPredict(trk) ==
    [trk EXCEPT !.age = @ + 1,
                !.hit_streak = IF trk.time_since_update > 0 THEN 0 ELSE @,
                !.time_since_update = @ + 1]

\* np.any(np.isnan(pos)) for pos = tracker.predict()
PredictedNaN(trk) == ~trk.finite

(***************************************************************************)
(* Sort.update.                                                            *)
(***************************************************************************)
\* Line 302: the track is put in the returned list.
Reported(trk, frame) ==
    /\ trk.time_since_update < 1
    /\ (trk.hit_streak >= min_hits \/ frame <= min_hits)

\* Line 303: the id of a track's row [x1, y1, x2, y2, id + 1].
RowId(trk) == trk.id + 1

\* Line 306: the track is removed.
Dead(trk) == trk.time_since_update > max_age

\* Lines 298-311: `for trk in reversed(self.trackers)` with the pops it does
\* on the list it iterates.  k is the position of the reversed iterator,
\* which stops when k is outside the list; i is the code's i.  get_state
\* catches its own exceptions, so the except branch is not taken.
RECURSIVE ResultLoop(_, _, _, _, _)
ResultLoop(trks, k, i, rows, frame) ==
    IF k < 1 \/ k > Len(trks)
    THEN [trackers |-> trks, ret |-> rows]
    ELSE LET trk == trks[k]
             rows2 == IF Reported(trk, frame)
                      THEN Append(rows, [id |-> RowId(trk)])
                      ELSE rows
             i2 == i - 1
             trks2 == IF Dead(trk) THEN Pop(trks, i2) ELSE trks
         IN ResultLoop(trks2, k - 1, i2, rows2, frame)

\* Lines 259-315 for one result assoc of the association.
\* dets: the detections of the frame; frame: self.frame_count after line 259.
SortUpdateWith(trks, cnt, frame, dets, assoc) ==
    LET predicted == [k \in DOMAIN trks |->
                        [KalmanPredict(trks[k]) EXCEPT !.misses = @ + 1]]
        valid == SelectSeq(predicted, LAMBDA t : ~PredictedNaN(t))
        updated == [t \in DOMAIN valid |->
                      IF \E k \in DOMAIN assoc.matches : assoc.matches[k][2] = t
                      THEN LET k == CHOOSE k \in DOMAIN assoc.matches :
                                        assoc.matches[k][2] = t
                           IN [KalmanUpdate(valid[t],
                                            dets[assoc.matches[k][1]])
                                 EXCEPT !.misses = 0,
                                        !.run = @ + 1,
                                        !.matched = @ + 1]
                      ELSE [valid[t] EXCEPT !.run = 0]]
        ud == assoc.unmatched_detections
        created == [k \in DOMAIN ud |->
                      KalmanBoxTracker(dets[ud[k]], NextId(cnt, k), frame)]
        all == updated \o created
        res == ResultLoop(all, Len(all), Len(all), <<>>, frame)
    IN [trackers |-> res.trackers,
        ret |-> res.ret,
        count |-> cnt + Len(ud),
        new_ids |-> {created[k].id : k \in DOMAIN created},
        deleted |-> SelectSeq(predicted, PredictedNaN)
                    \o SelectSeq(all, LAMBDA t : \A j \in DOMAIN res.trackers :
                                                   res.trackers[j] # t)]

\* The IOU matrices a frame can have: a detection of zero area has IOU 0
\* with every track (iou_batch: wh = 0), and one of overflowing size an IOU
\* that rounds to 0 (the union is its own area).
IouMatrices(dets, nt) ==
    {m \in [DOMAIN dets -> [1..nt -> FrameIouVals]] :
        \A d \in DOMAIN dets :
            (~dets[d].valid \/ dets[d].huge) => \A t \in 1..nt : m[d][t] = 0}

\* Lines 262-286: the possible association results of a frame, with scipy
\* importable (hasScipy) or not.
FrameAssociations(trks, dets) ==
    LET nt == Len(SelectSeq(trks, LAMBDA t : t.finite))
        nd == Len(dets)
    IN IF nt > 0 /\ nd > 0
       THEN UNION {associate_detections_to_trackers(m, nd, nt, hasScipy) :
                      m \in IouMatrices(dets, nt), hasScipy \in BOOLEAN}
       ELSE {[matches |-> <<>>, unmatched_detections |-> Arange(nd),
              unmatched_trackers |-> Arange(nt), assigned |-> <<>>]}

(***************************************************************************)
(* Sort.get_trackers.                                                      *)
(* get_state returns the 1-D array convert_x_to_bbox builds, so            *)
(* `state = trk.get_state()[0]` (line 327) is a numpy scalar.  The dict    *)
(* display of lines 332-338 evaluates 'id': trk.id and then state[0]       *)
(* (line 334), which raises IndexError: the first track that passes the    *)
(* test of line 326 ends the call, before any entry is appended.           *)
(***************************************************************************)
\* Line 326: the track gets an entry.
Selected(trk) == trk.time_since_update < 1

\* Line 333: the id of a track's entry.
EntryId(trk) == trk.id

\* raised: the call ended with IndexError; info: the list it returned;
\* entry: the tracks whose entry it began to build, with the id evaluated
\* for the entry.
get_trackers(trks) ==
    LET sel == SelectSeq(trks, Selected)
    IN IF sel # <<>>
       THEN [raised |-> TRUE, info |-> <<>>,
             entry |-> <<[track |-> sel[1].id, id |-> EntryId(sel[1])]>>]
       ELSE [raised |-> FALSE, info |-> <<>>, entry |-> <<>>]

(***************************************************************************)
(* CrowdAnalytics.                                                         *)
(***************************************************************************)
\* determine_status
determine_status(density, coherence, ke_spike) ==
    IF \/ density >= DENSITY_THRESHOLD_CRITICAL
       \/ coherence >= COHERENCE_THRESHOLD_CRITICAL
       \/ ke_spike
    THEN STATUS_CRITICAL
    ELSE IF \/ density >= DENSITY_THRESHOLD_WARNING
            \/ coherence >= COHERENCE_THRESHOLD_WARNING
         THEN STATUS_WARNING
         ELSE STATUS_NORMAL

\* Faulty variant: a full window drops its newest sample, not its oldest.
DequeAppendDropNewest(hist, x) ==
    IF Len(hist) >= KE_MOVING_AVG_WINDOW
    THEN Append(SubSeq(hist, 1, Len(hist) - 1), x)
    ELSE Append(hist, x)

\* deque(maxlen=KE_MOVING_AVG_WINDOW).append
DequeAppend(hist, x) ==
    IF Len(hist) >= KE_MOVING_AVG_WINDOW THEN Append(Tail(hist), x)
    ELSE Append(hist, x)

\* Faulty variant: lines 66-67 left out.
ClampNone(x, n) == x

\* max(0, min(n - 1, x)), lines 66-67.
Clamp(x, n) == IF x < 0 THEN 0 ELSE IF x > n - 1 THEN n - 1 ELSE x

\* int(a / b) for b > 0: Python's int truncates towards zero.
Trunc(a, b) == IF a >= 0 THEN a \div b ELSE 0 - ((0 - a) \div b)

\* cell_width and cell_height, lines 51-52.
cell_width == VIDEO_RESOLUTION[1] \div DENSITY_GRID_SIZE[2]
cell_height == VIDEO_RESOLUTION[2] \div DENSITY_GRID_SIZE[1]

\* Lines 62-67: <<grid_y, grid_x>> for the bbox centre c = <<x, y>>.
GridCell(c) ==
    <<Clamp(Trunc(c[2], cell_height), DENSITY_GRID_SIZE[1]),
      Clamp(Trunc(c[1], cell_width), DENSITY_GRID_SIZE[2])>>

GridCells ==
    (0..(DENSITY_GRID_SIZE[1] - 1)) \X (0..(DENSITY_GRID_SIZE[2] - 1))

\* calculate_crowd_density for the bbox centres of tracker_info: a grid of
\* zeros (line 48), one increment per track (line 69), np.max (line 72).
calculate_crowd_density(centres) ==
    LET grid == [cell \in GridCells |->
                   Cardinality({k \in DOMAIN centres :
                                   GridCell(centres[k]) = cell})]
        counts == {grid[c] : c \in GridCells}
    IN [grid |-> grid,
        max_density |-> CHOOSE m \in counts : \A x \in counts : x <= m]

\* Faulty variant: line 95 with any speed above 0.
IsMovingAny(v) == v[1] * v[1] + v[2] * v[2] > 0

\* Line 95: speed > 0.1, the velocity in tenths.
IsMoving(v) == v[1] * v[1] + v[2] * v[2] > 1

\* <<cos(angle), sin(angle)>> of the angle of an axis-parallel velocity.
UnitVector(v) ==
    <<IF v[1] > 0 THEN 1 ELSE IF v[1] < 0 THEN 0 - 1 ELSE 0,
      IF v[2] > 0 THEN 1 ELSE IF v[2] < 0 THEN 0 - 1 ELSE 0>>

\* Lines 114-122 in whole degrees, for n unit vectors whose sum has the
\* squared length r2: R = sqrt(r2) / n, and the integer part of
\* degrees(sqrt(2 * (1 - R))) when 1 - R > 0, else 0.
CircularStdDegrees(n, r2) ==
    IF r2 >= n * n THEN 0
    ELSE CASE r2 = 0 -> 81
           [] n = 2 /\ r2 = 2 -> 43
           [] n = 3 /\ r2 = 1 -> 66
           [] n = 3 /\ r2 = 5 -> 40
           [] n = 4 /\ r2 = 2 -> 65
           [] n = 4 /\ r2 = 4 -> 57
           [] n = 4 /\ r2 = 8 -> 43
           [] n = 4 /\ r2 = 10 -> 37

\* calculate_motion_coherence for the velocities of tracker_info.
calculate_motion_coherence(vels) ==
    IF Len(vels) < 2 THEN 0
    ELSE LET units == [k \in DOMAIN SelectSeq(vels, IsMoving) |->
                          UnitVector(SelectSeq(vels, IsMoving)[k])]
             n == Len(units)
             sx == IF n = 0 THEN 0
                   ELSE LET RECURSIVE Sx(_)
                            Sx(k) == IF k = 0 THEN 0 ELSE units[k][1] + Sx(k - 1)
                        IN Sx(n)
             sy == IF n = 0 THEN 0
                   ELSE LET RECURSIVE Sy(_)
                            Sy(k) == IF k = 0 THEN 0 ELSE units[k][2] + Sy(k - 1)
                        IN Sy(n)
         IN IF n < 2 THEN 0
            ELSE CircularStdDegrees(n, sx * sx + sy * sy)

RECURSIVE Sum(_)
Sum(seq) == IF seq = <<>> THEN 0 ELSE Head(seq) + Sum(Tail(seq))

\* Faulty variant: line 160 without the test of the number of samples.
KineticEnergyNoWarmUp(hist, current_ke) ==
    LET h == Append(hist, current_ke)
    IN [history |-> IF Len(h) > KE_MOVING_AVG_WINDOW THEN Tail(h) ELSE h,
        current |-> current_ke,
        moving_average |-> [sum |-> Sum(h), n |-> Len(h)],
        is_spike |-> Sum(h) > 0 /\ current_ke * Len(h) > KE_SPIKE_FACTOR * Sum(h)]

\* Faulty variant: line 161 without the spike factor.
KineticEnergyNoFactor(hist, current_ke) ==
    LET h == Append(hist, current_ke)
    IN [history |-> IF Len(h) > KE_MOVING_AVG_WINDOW THEN Tail(h) ELSE h,
        current |-> current_ke,
        moving_average |-> [sum |-> Sum(h), n |-> Len(h)],
        is_spike |-> Len(h) >= 10 /\ current_ke * Len(h) > Sum(h)]

\* calculate_kinetic_energy, lines 149-164, for the current_ke that lines
\* 136-147 compute.  The moving average np.mean(history) is kept as the sum
\* and the number of the samples; mean > 0 is sum > 0 and
\* current_ke > mean * KE_SPIKE_FACTOR is current_ke * n > KE_SPIKE_FACTOR * sum.
calculate_kinetic_energy(hist, current_ke) ==
    LET h == DequeAppend(hist, current_ke)
        total == Sum(h)
        n == Len(h)
    IN [history |-> h,
        current |-> current_ke,
        moving_average |-> [sum |-> total, n |-> n],
        is_spike |-> IF total > 0 /\ n >= 10
                     THEN current_ke * n > KE_SPIKE_FACTOR * total
                     ELSE FALSE]

\* analyze_frame.  info stands for tracker_info: persons is its length,
\* density and coherence are what calculate_crowd_density and
\* calculate_motion_coherence return for it, ke is its current_ke.
\* frame is self.frame_count after line 201.
analyze_frame(frame, hist, info) ==
    LET k == calculate_kinetic_energy(hist, info.ke)
    IN [history |-> k.history,
        results |->
          [frame_count |-> frame, person_count |-> info.persons,
           max_density |-> info.density, std_deviation |-> info.coherence,
           current |-> k.current, moving_average |-> k.moving_average,
           spike_detected |-> k.is_spike,
           status |-> determine_status(info.density, info.coherence,
                                       k.is_spike)]]

\* An empty tracker_info: the grid is all zero, fewer than two tracks give
\* coherence 0, current_ke is 0.
EmptyInfo == [persons |-> 0, density |-> 0, coherence |-> 0, ke |-> 0]

\* A tracker_info of one track of kinetic energy ke: one cell holds one
\* person, fewer than two tracks give coherence 0.
OneTrack(ke) == [persons |-> 1, density |-> 1, coherence |-> 0, ke |-> ke]

AnalyzeEmptyFrame(frame, hist) == analyze_frame(frame, hist, EmptyInfo)

NoSnapshot ==
    [frame_count |-> 0, person_count |-> 0, max_density |-> 0,
     std_deviation |-> 0, current |-> 0,
     moving_average |-> [sum |-> 0, n |-> 0], spike_detected |-> FALSE,
     status |-> "NONE"]

(***************************************************************************)
(* ArgusCorePipeline.process_frame.                                        *)
(***************************************************************************)
Detections ==
    UNION {[1..n -> [valid : BOOLEAN, huge : {FALSE}]] : n \in 0..MaxDets}

\* Lines 64-75: tracker.update, tracker.get_trackers, analyze_frame.
TrackAndAnalyze(dets, assoc) ==
    LET u == SortUpdateWith(trackers, count, sort_frame_count + 1, dets, assoc)
        g == get_trackers(u.trackers)
    IN /\ Len(u.trackers) <= MaxTracks
       /\ u.count <= MaxIds
       /\ sort_frame_count' = sort_frame_count + 1
       /\ trackers' = u.trackers
       /\ ret' = u.ret
       /\ count' = u.count
       /\ issued' = issued \cup u.new_ids
       /\ last_deleted' = u.deleted
       /\ last_dets' = dets
       /\ gt' = g
       /\ IF g.raised
          THEN /\ outcome' = "IndexError"
               /\ UNCHANGED <<an_frame_count, ke_history, ke_all, snapshot>>
          ELSE LET a == AnalyzeEmptyFrame(an_frame_count + 1, ke_history)
               IN /\ outcome' = "returned"
                  /\ an_frame_count' = an_frame_count + 1
                  /\ ke_history' = a.history
                  /\ ke_all' = Append(ke_all, 0)
                  /\ snapshot' = [a.results
                                    EXCEPT !.person_count = Len(g.info)]

\* Lines 51-75.
ProcessFrameWith(dets, assoc) ==
    /\ pipe_frame_count' = pipe_frame_count + 1
    /\ TrackAndAnalyze(dets, assoc)
    /\ UNCHANGED <<assoc_in, assoc_out, status_in, status_out>>
    /\ UNCHANGED metricVars
    /\ UNCHANGED <<twin, convertVars, serverVars>>

ProcessFrame ==
    /\ sort_frame_count < MaxFrames
    /\ \E dets \in Detections :
         \E assoc \in FrameAssociations(trackers, dets) :
            ProcessFrameWith(dets, assoc)

(***************************************************************************)
(* Sort.update called on a Sort object of its own (as test_task3.py does), *)
(* with detections of any size.  A frame that follows an overflowing       *)
(* detection is taken with no detection, so that iou_batch is not given a  *)
(* box of infinite width.                                                  *)
(***************************************************************************)
HugeDetections ==
    UNION {[1..n -> {[valid |-> TRUE, huge |-> FALSE],
                     [valid |-> FALSE, huge |-> FALSE],
                     [valid |-> TRUE, huge |-> TRUE]}] : n \in 0..MaxDets}

SortUpdate(dets, assoc) ==
    LET u == SortUpdateWith(trackers, count, sort_frame_count + 1, dets, assoc)
    IN /\ Len(u.trackers) <= MaxTracks
       /\ u.count <= MaxIds
       /\ sort_frame_count' = sort_frame_count + 1
       /\ trackers' = u.trackers
       /\ ret' = u.ret
       /\ count' = u.count
       /\ issued' = issued \cup u.new_ids
       /\ last_deleted' = u.deleted
       /\ last_dets' = dets
       /\ UNCHANGED <<pipe_frame_count, an_frame_count, ke_history, ke_all,
                      outcome, snapshot, gt>>
       /\ UNCHANGED <<assoc_in, assoc_out, status_in, status_out>>
       /\ UNCHANGED metricVars
       /\ UNCHANGED <<twin, convertVars, serverVars>>

UpdateOverflow ==
    /\ sort_frame_count < MaxOverflowFrames
    /\ \E dets \in HugeDetections :
         /\ (\E k \in DOMAIN trackers : trackers[k].overflow) => dets = <<>>
         /\ \E assoc \in FrameAssociations(trackers, dets) :
               SortUpdate(dets, assoc)

(***************************************************************************)
(* main.py: the server.  There is one pipeline object, the module global   *)
(* core_pipeline of line 30, and the variables of process_frame's model    *)
(* are its state.  A stream is a request of /analytics_stream (kind        *)
(* "http": Starlette runs its generator in worker threads) or a connection *)
(* of /ws/analytics (kind "ws": the handler runs on the event loop, and    *)
(* process_frame has no await in it).  process_frame is taken in two       *)
(* steps, its line 51 and the detection, then its lines 64-75; what runs   *)
(* on the event loop waits while a "ws" stream is inside process_frame.    *)
(***************************************************************************)
LoopFree == \A t \in inside : streams[t].kind # "ws"

PipelineUntouched ==
    UNCHANGED <<trackers, count, sort_frame_count, ret, pipe_frame_count,
                an_frame_count, ke_history, ke_all, outcome, snapshot, gt,
                issued, last_deleted, last_dets>>

RestUntouched ==
    /\ UNCHANGED <<assoc_in, assoc_out, status_in, status_out>>
    /\ UNCHANGED metricVars
    /\ UNCHANGED <<twin, convertVars>>

\* Lines 184-255: the request is accepted and its generator started.
AnalyticsStream(s) ==
    /\ streams[s].kind = "none"
    /\ LoopFree
    /\ streams' = [streams EXCEPT ![s] = [kind |-> "http", pc |-> "serving"]]
    /\ UNCHANGED <<active_connections, inside, mutators>>
    /\ PipelineUntouched
    /\ RestUntouched

\* Lines 288 and 262-264: manager.connect(websocket).
WebsocketConnect(s) ==
    /\ streams[s].kind = "none"
    /\ LoopFree
    /\ active_connections' = Append(active_connections, s)
    /\ streams' = [streams EXCEPT ![s] = [kind |-> "ws", pc |-> "serving"]]
    /\ UNCHANGED <<inside, mutators>>
    /\ PipelineUntouched
    /\ RestUntouched

\* Lines 215 and 311, then core_pipeline.py lines 51-54.
EnterFrame(s) ==
    /\ streams[s].pc = "serving"
    /\ streams[s].kind = "ws" => LoopFree
    /\ pipe_frame_count < MaxServerFrames
    /\ pipe_frame_count' = pipe_frame_count + 1
    /\ inside' = inside \cup {s}
    /\ streams' = [streams EXCEPT ![s].pc = "processing"]
    /\ UNCHANGED <<trackers, count, sort_frame_count, ret, an_frame_count,
                   ke_history, ke_all, outcome, snapshot, gt, issued,
                   last_deleted, last_dets>>
    /\ UNCHANGED <<active_connections, mutators>>
    /\ RestUntouched

\* core_pipeline.py lines 64-75, then what the handler does with the
\* result.  An exception of process_frame ends the handler (lines 249-250,
\* 324-326), and so does a client that has gone away (sent = FALSE: the
\* generator is closed at line 241, send_text raises at line 315 and line
\* 323 or 326 breaks).  Both breaks leave the try statement of line 291
\* with no exception, so line 329, the only call of manager.disconnect,
\* is not executed.
LeaveFrameWith(s, dets, assoc, sent) ==
    /\ TrackAndAnalyze(dets, assoc)
    /\ inside' = inside \ {s}
    /\ mutators' = mutators \cup {s}
    /\ streams' = [streams EXCEPT ![s].pc =
                      IF outcome' = "returned" /\ sent
                      THEN "serving" ELSE "ended"]
    /\ UNCHANGED <<pipe_frame_count, active_connections>>
    /\ RestUntouched

LeaveFrame(s) ==
    /\ streams[s].pc = "processing"
    /\ \E dets \in Detections, sent \in BOOLEAN :
         \E assoc \in FrameAssociations(trackers, dets) :
            LeaveFrameWith(s, dets, assoc, sent)

(***************************************************************************)
(* Two Sort objects in one process.  KalmanBoxTracker.count is a class     *)
(* attribute (line 15), read and incremented by every KalmanBoxTracker     *)
(* that either object creates (lines 50-51); Sort.__init__ (lines 240-244) *)
(* does not touch it.  trackers, sort_frame_count and ret belong to the    *)
(* first object, twin.other to the second.  twin.alone is the first object *)
(* as it is when the same frames are given to it in a process where no     *)
(* other Sort object exists: same detections, same boxes, and so the same  *)
(* association, with a counter of its own.                                 *)
(***************************************************************************)
UpdateFirstWith(dets, assoc) ==
    LET u == SortUpdateWith(trackers, count, sort_frame_count + 1, dets, assoc)
        a == SortUpdateWith(twin.alone.trackers, twin.alone.count,
                            sort_frame_count + 1, dets, assoc)
    IN /\ Len(u.trackers) <= MaxTracks
       /\ u.count <= MaxIds
       /\ sort_frame_count' = sort_frame_count + 1
       /\ trackers' = u.trackers
       /\ ret' = u.ret
       /\ count' = u.count
       /\ issued' = issued \cup u.new_ids
       /\ last_deleted' = u.deleted
       /\ last_dets' = dets
       /\ twin' = [twin EXCEPT !.alone = [trackers |-> a.trackers,
                                          count |-> a.count,
                                          ret |-> a.ret]]
       /\ UNCHANGED <<pipe_frame_count, an_frame_count, ke_history, ke_all,
                      outcome, snapshot, gt>>
       /\ UNCHANGED <<assoc_in, assoc_out, status_in, status_out>>
       /\ UNCHANGED metricVars
       /\ UNCHANGED <<convertVars, serverVars>>

UpdateFirst ==
    /\ sort_frame_count < MaxTwinFrames
    /\ \E dets \in Detections :
         \E assoc \in FrameAssociations(trackers, dets) :
            UpdateFirstWith(dets, assoc)

UpdateOtherWith(dets, assoc) ==
    LET u == SortUpdateWith(twin.other.trackers, count,
                            twin.other.frame_count + 1, dets, assoc)
    IN /\ Len(u.trackers) <= MaxTracks
       /\ u.count <= MaxIds
       /\ count' = u.count
       /\ twin' = [twin EXCEPT !.other =
                                  [trackers |-> u.trackers,
                                   frame_count |-> twin.other.frame_count + 1,
                                   ret |-> u.ret]]
       /\ UNCHANGED <<trackers, sort_frame_count, ret, issued, last_deleted,
                      last_dets>>
       /\ UNCHANGED <<pipe_frame_count, an_frame_count, ke_history, ke_all,
                      outcome, snapshot, gt>>
       /\ UNCHANGED <<assoc_in, assoc_out, status_in, status_out>>
       /\ UNCHANGED metricVars
       /\ UNCHANGED <<convertVars, serverVars>>

UpdateOther ==
    /\ twin.other.frame_count < MaxTwinFrames
    /\ \E dets \in Detections :
         \E assoc \in FrameAssociations(twin.other.trackers, dets) :
            UpdateOtherWith(dets, assoc)

(***************************************************************************)
(* Initial states.                                                         *)
(***************************************************************************)
NoAssoc ==
    [done |-> FALSE, matches |-> <<>>, unmatched_detections |-> <<>>,
     unmatched_trackers |-> <<>>, assigned |-> <<>>]

\* The pipeline after ArgusCorePipeline.__init__, Sort.__init__ and
\* CrowdAnalytics.__init__, in a process that has created no track yet.
PipelineInit ==
    /\ trackers = <<>>
    /\ count = 0
    /\ sort_frame_count = 0
    /\ ret = <<>>
    /\ pipe_frame_count = 0
    /\ an_frame_count = 0
    /\ ke_history = <<>>
    /\ ke_all = <<>>
    /\ outcome = "none"
    /\ snapshot = NoSnapshot
    /\ gt = [raised |-> FALSE, info |-> <<>>, entry |-> <<>>]
    /\ issued = {}
    /\ last_deleted = <<>>
    /\ last_dets = <<>>

AssocIdle ==
    /\ assoc_in = [nd |-> 0, nt |-> 0, iou |-> <<>>, scipy |-> TRUE]
    /\ assoc_out = NoAssoc

StatusIdle ==
    /\ status_in = [density |-> 0, coherence |-> 0, ke_spike |-> FALSE]
    /\ status_out = "NONE"

NoDensity == [done |-> FALSE, max_density |-> 0, grid |-> <<>>]

DensityIdle ==
    /\ density_in = <<>>
    /\ density_out = NoDensity

NoCoherence == [done |-> FALSE, std_deviation |-> 0]

CoherenceIdle ==
    /\ coherence_in = <<>>
    /\ coherence_out = NoCoherence

MetricsIdle == DensityIdle /\ CoherenceIdle

\* A second Sort object after Sort.__init__, and the first one in a
\* process of its own.
TwinInit ==
    twin = [other |-> [trackers |-> <<>>, frame_count |-> 0, ret |-> <<>>],
            alone |-> [trackers |-> <<>>, count |-> 0, ret |-> <<>>]]

NoBox == [x1 |-> 0, y1 |-> 0, x2 |-> 0, y2 |-> 0]

ConvertIdle ==
    /\ convert_in = NoBox
    /\ convert_out = [done |-> FALSE, bbox |-> NoBox]

\* main.py after import: no request yet, manager = ConnectionManager().
ServerInit ==
    /\ streams = [s \in StreamIds |-> [kind |-> "none", pc |-> "idle"]]
    /\ active_connections = <<>>
    /\ inside = {}
    /\ mutators = {}

Init ==
    /\ PipelineInit
    /\ AssocIdle
    /\ StatusIdle
    /\ MetricsIdle
    /\ TwinInit
    /\ ConvertIdle
    /\ ServerInit

Next == ProcessFrame

Spec == Init /\ [][Next]_vars

NextOverflow == UpdateOverflow

SpecOverflow == Init /\ [][NextOverflow]_vars

\* The conversions on their own: a bbox of positive width and height is
\* drawn in the initial state and converted there and back.
BoxInputs ==
    {[x1 |-> x, y1 |-> y, x2 |-> x + w, y2 |-> y + h] :
        x \in CornerVals, y \in CornerVals, w \in WidthVals, h \in HeightVals}

InitConvert ==
    /\ PipelineInit
    /\ TwinInit
    /\ ServerInit
    /\ AssocIdle
    /\ StatusIdle
    /\ MetricsIdle
    /\ convert_in \in BoxInputs
    /\ convert_out = [done |-> FALSE, bbox |-> NoBox]

Convert ==
    /\ ~convert_out.done
    /\ convert_out' =
          [done |-> TRUE,
           bbox |-> convert_x_to_bbox(convert_bbox_to_z(convert_in))]
    /\ UNCHANGED convert_in
    /\ PipelineUntouched
    /\ UNCHANGED <<assoc_in, assoc_out, status_in, status_out>>
    /\ UNCHANGED metricVars
    /\ UNCHANGED <<twin, serverVars>>

NextConvert == Convert

SpecConvert == InitConvert /\ [][NextConvert]_vars

NextServer ==
    \E s \in StreamIds :
        \/ AnalyticsStream(s)
        \/ WebsocketConnect(s)
        \/ EnterFrame(s)
        \/ LeaveFrame(s)

SpecServer == Init /\ [][NextServer]_vars

NextTwo == UpdateFirst \/ UpdateOther

SpecTwo == Init /\ [][NextTwo]_vars

(***************************************************************************)
(* associate_detections_to_trackers on its own: the inputs are drawn in    *)
(* the initial state, the action applies the function.                     *)
(***************************************************************************)
AssocInputs ==
    UNION {[nd : {n}, nt : {t}, iou : [1..n -> [1..t -> IouVals]],
            scipy : BOOLEAN] :
              n \in 0..AssocMaxDets, t \in 0..AssocMaxTracks}

InitAssoc ==
    /\ PipelineInit
    /\ TwinInit
    /\ ConvertIdle
    /\ ServerInit
    /\ StatusIdle
    /\ MetricsIdle
    /\ assoc_in \in AssocInputs
    /\ assoc_out = NoAssoc

Associate ==
    /\ ~assoc_out.done
    /\ \E r \in associate_detections_to_trackers(assoc_in.iou, assoc_in.nd,
                                                 assoc_in.nt, assoc_in.scipy) :
          assoc_out' = [done |-> TRUE, matches |-> r.matches,
                        unmatched_detections |-> r.unmatched_detections,
                        unmatched_trackers |-> r.unmatched_trackers,
                        assigned |-> r.assigned]
    /\ UNCHANGED <<trackers, count, sort_frame_count, ret, pipe_frame_count,
                   an_frame_count, ke_history, ke_all, outcome, snapshot, gt, issued,
                   last_deleted, last_dets, assoc_in, status_in, status_out>>
    /\ UNCHANGED metricVars
    /\ UNCHANGED <<twin, convertVars, serverVars>>

NextAssoc == Associate

SpecAssoc == InitAssoc /\ [][NextAssoc]_vars

(***************************************************************************)
(* CrowdAnalytics.determine_status on its own.                             *)
(***************************************************************************)
StatusInputs ==
    [density : 0..MaxDensity, coherence : CoherenceVals, ke_spike : BOOLEAN]

InitStatus ==
    /\ PipelineInit
    /\ TwinInit
    /\ ConvertIdle
    /\ ServerInit
    /\ AssocIdle
    /\ MetricsIdle
    /\ status_in \in StatusInputs
    /\ status_out = "NONE"

DetermineStatus ==
    /\ status_out = "NONE"
    /\ status_out' = determine_status(status_in.density, status_in.coherence,
                                      status_in.ke_spike)
    /\ UNCHANGED <<trackers, count, sort_frame_count, ret, pipe_frame_count,
                   an_frame_count, ke_history, ke_all, outcome, snapshot, gt, issued,
                   last_deleted, last_dets, assoc_in, assoc_out, status_in>>
    /\ UNCHANGED metricVars
    /\ UNCHANGED <<twin, convertVars, serverVars>>

NextStatus == DetermineStatus

SpecStatus == InitStatus /\ [][NextStatus]_vars

(***************************************************************************)
(* CrowdAnalytics.analyze_frame called directly on a fresh instance, with  *)
(* one track per frame.  The warm-up runs take any current_ke in each of   *)
(* their few frames; the window runs are longer than the window and have   *)
(* few frames in which the track moves.                                    *)
(***************************************************************************)
AnalyzeFrameWith(info) ==
    LET a == analyze_frame(an_frame_count + 1, ke_history, info)
    IN /\ an_frame_count' = an_frame_count + 1
       /\ ke_history' = a.history
       /\ ke_all' = Append(ke_all, info.ke)
       /\ snapshot' = a.results
       /\ UNCHANGED <<trackers, count, sort_frame_count, ret,
                      pipe_frame_count, outcome, gt, issued, last_deleted,
                      last_dets,
                      assoc_in, assoc_out, status_in, status_out>>
       /\ UNCHANGED metricVars
       /\ UNCHANGED <<twin, convertVars, serverVars>>

AnalyzeWarmUp ==
    /\ an_frame_count < MaxWarmFrames
    /\ \E ke \in KeVals : AnalyzeFrameWith(OneTrack(ke))

NextWarmUp == AnalyzeWarmUp

SpecWarmUp == Init /\ [][NextWarmUp]_vars

Moving(kes) == Cardinality({k \in DOMAIN kes : kes[k] > 0})

AnalyzeWindow ==
    /\ an_frame_count < MaxKeFrames
    /\ \E ke \in KeVals :
          /\ ke > 0 => Moving(ke_all) < MaxMoving
          /\ AnalyzeFrameWith(OneTrack(ke))

NextWindow == AnalyzeWindow

SpecWindow == Init /\ [][NextWindow]_vars

(***************************************************************************)
(* calculate_crowd_density and calculate_motion_coherence on their own.    *)
(***************************************************************************)
DensityInputs ==
    UNION {[1..n -> CentreXs \X CentreYs] : n \in 0..MaxPersons}

InitDensity ==
    /\ PipelineInit
    /\ TwinInit
    /\ ConvertIdle
    /\ ServerInit
    /\ AssocIdle
    /\ StatusIdle
    /\ CoherenceIdle
    /\ density_in \in DensityInputs
    /\ density_out = NoDensity

CrowdDensity ==
    /\ ~density_out.done
    /\ LET d == calculate_crowd_density(density_in)
       IN density_out' = [done |-> TRUE, max_density |-> d.max_density,
                          grid |-> d.grid]
    /\ UNCHANGED <<trackers, count, sort_frame_count, ret, pipe_frame_count,
                   an_frame_count, ke_history, ke_all, outcome, snapshot, gt,
                   issued, last_deleted, last_dets, assoc_in, assoc_out,
                   status_in,
                   status_out, density_in, coherence_in, coherence_out>>
    /\ UNCHANGED <<twin, convertVars, serverVars>>

NextDensity == CrowdDensity

SpecDensity == InitDensity /\ [][NextDensity]_vars

CoherenceInputs ==
    UNION {[1..n -> Velocities] : n \in 0..MaxMovers}

InitCoherence ==
    /\ PipelineInit
    /\ TwinInit
    /\ ConvertIdle
    /\ ServerInit
    /\ AssocIdle
    /\ StatusIdle
    /\ DensityIdle
    /\ coherence_in \in CoherenceInputs
    /\ coherence_out = NoCoherence

MotionCoherence ==
    /\ ~coherence_out.done
    /\ coherence_out' =
          [done |-> TRUE,
           std_deviation |-> calculate_motion_coherence(coherence_in)]
    /\ UNCHANGED <<trackers, count, sort_frame_count, ret, pipe_frame_count,
                   an_frame_count, ke_history, ke_all, outcome, snapshot, gt,
                   issued, last_deleted, last_dets, assoc_in, assoc_out,
                   status_in,
                   status_out, density_in, density_out, coherence_in>>
    /\ UNCHANGED <<twin, convertVars, serverVars>>

NextCoherence == MotionCoherence

SpecCoherence == InitCoherence /\ [][NextCoherence]_vars

(***************************************************************************)
(* Properties.                                                             *)
(***************************************************************************)
Statuses == {STATUS_NORMAL, STATUS_WARNING, STATUS_CRITICAL}

TrackIds == {trackers[k].id : k \in DOMAIN trackers}

\* The track has a row in the list Sort.update returned (a row carries the
\* track's id plus one).
InRet(trk) == \E j \in DOMAIN ret : ret[j].id = trk.id + 1

\* The number of positions of seq that hold x.
Occurrences(seq, x) == Cardinality({k \in DOMAIN seq : seq[k] = x})

Column(pairs, c) == [k \in DOMAIN pairs |-> pairs[k][c]]

C2_ReturnedIffReportable ==
    /\ \A k \in DOMAIN trackers :
          InRet(trackers[k]) <=>
             /\ trackers[k].time_since_update = 0
             /\ \/ trackers[k].hit_streak >= min_hits
                \/ sort_frame_count <= min_hits
    /\ \A j \in DOMAIN ret : \E k \in DOMAIN trackers :
          ret[j].id = trackers[k].id + 1

\* After the grace period, one update has returned a confirmed track and
\* has left out a track it matched or created in the same frame.
C2_ConfirmedAndTentative ==
    /\ sort_frame_count > min_hits
    /\ \E j, k \in DOMAIN trackers :
          /\ trackers[j].hit_streak >= min_hits
          /\ InRet(trackers[j])
          /\ trackers[k].time_since_update = 0
          /\ trackers[k].hit_streak < min_hits
          /\ ~InRet(trackers[k])

\* C3: the tracks for which get_trackers builds an entry in a frame are
\* tracks returned by Sort.update for that frame, and the snapshot's
\* person_count is the number of rows Sort.update returned.
C3_HandedAreReportable ==
    /\ \A j \in DOMAIN gt.entry : \E r \in DOMAIN ret :
          ret[r].id = gt.entry[j].track + 1
    /\ outcome = "returned" => snapshot.person_count = Len(ret)

\* C4: every process_frame call returns, with a snapshot whose status is
\* NORMAL, WARNING or CRITICAL.
C4_ProcessFrameReturns ==
    /\ outcome \in {"none", "returned"}
    /\ outcome = "returned" => snapshot.status \in Statuses

\* C5: no two tracks of the collection have the same id, and every track
\* created by an update gets an id greater than every id issued before it
\* (in earlier frames, and earlier in the same frame), so that an id is not
\* given twice, also after its track was deleted.
UniqueIds ==
    \A j, k \in DOMAIN trackers : j # k => trackers[j].id # trackers[k].id

NewIdsIncrease ==
    \A k \in DOMAIN trackers' :
        (sort_frame_count' = sort_frame_count + 1
           /\ trackers'[k].born = sort_frame_count') =>
            /\ \A i \in issued : trackers'[k].id > i
            /\ \A j \in 1..(k - 1) :
                  trackers'[j].born = sort_frame_count' =>
                      trackers'[j].id < trackers'[k].id

C5_IdsUniqueIncreasing == []UniqueIds /\ [][NewIdsIncrease]_vars

\* A track was created after the track of a smaller id was deleted.
C5_CreatedAfterDeletion ==
    \E k \in DOMAIN trackers : \E i \in issued :
        /\ trackers[k].born > 1
        /\ i < trackers[k].id
        /\ i \notin TrackIds

C7_UnmatchedRemoved ==
    \A k \in DOMAIN trackers : trackers[k].misses <= max_age

\* The last update removed a track in its (max_age + 1)-th frame without a
\* match.
C7_RemovedAfterMaxAge ==
    \E k \in DOMAIN last_deleted :
        /\ last_deleted[k].misses = max_age + 1
        /\ last_deleted[k].finite
        /\ last_deleted[k].id \notin TrackIds

\* C8: with min_hits = 3, a track created on frame 1 and matched on every
\* later frame up to frame 3 is returned on frames 1, 2 and 3; after frame 3
\* a track created on frame 1 is returned only if its hit_streak >= 3.
C8_GracePeriod ==
    \A k \in DOMAIN trackers :
        trackers[k].born = 1 =>
            /\ (sort_frame_count <= 3
                  /\ trackers[k].hits = sort_frame_count - 1)
                  => InRet(trackers[k])
            /\ (sort_frame_count > 3 /\ InRet(trackers[k]))
                  => trackers[k].hit_streak >= 3

\* On frame 3 the track created on frame 1 is returned with hit_streak 2.
C8_ReturnedBelowMinHits ==
    /\ sort_frame_count = 3
    /\ min_hits = 3
    /\ \E k \in DOMAIN trackers :
          /\ trackers[k].born = 1
          /\ trackers[k].hits = 2
          /\ trackers[k].hit_streak = 2
          /\ InRet(trackers[k])

\* C9: associate_detections_to_trackers returns a one-to-one matching that
\* partitions the indices: every detection index occurs exactly once in
\* matches and unmatched_detections together, every track index exactly
\* once in matches and unmatched_trackers together.
C9_Partition ==
    assoc_out.done =>
        LET md == Column(assoc_out.matches, 1) \o assoc_out.unmatched_detections
            mt == Column(assoc_out.matches, 2) \o assoc_out.unmatched_trackers
        IN /\ Len(md) = assoc_in.nd
           /\ \A d \in 1..assoc_in.nd : Occurrences(md, d) = 1
           /\ Len(mt) = assoc_in.nt
           /\ \A t \in 1..assoc_in.nt : Occurrences(mt, t) = 1

\* Two detections and three tracks: one pair matched, one pair rejected.
C9_MatchedAndRejected ==
    /\ assoc_out.done
    /\ assoc_in.nd = 2
    /\ assoc_in.nt = 3
    /\ Len(assoc_out.matches) = 1
    /\ Len(assoc_out.unmatched_detections) = 1
    /\ Len(assoc_out.unmatched_trackers) = 2

\* C10: every returned match has IOU >= iou_threshold, and an assigned pair
\* of IOU below iou_threshold is not a match: its detection is in
\* unmatched_detections and its track in unmatched_trackers.
C10_MatchesAboveThreshold ==
    assoc_out.done =>
        /\ \A k \in DOMAIN assoc_out.matches :
              assoc_in.iou[assoc_out.matches[k][1]][assoc_out.matches[k][2]]
                  >= iou_threshold
        /\ \A k \in DOMAIN assoc_out.assigned :
              LET m == assoc_out.assigned[k]
              IN assoc_in.iou[m[1]][m[2]] < iou_threshold =>
                    /\ Occurrences(assoc_out.matches, m) = 0
                    /\ Occurrences(assoc_out.unmatched_detections, m[1]) = 1
                    /\ Occurrences(assoc_out.unmatched_trackers, m[2]) = 1

\* One assigned pair is rejected and one pair of IOU equal to iou_threshold
\* is kept.
C10_RejectedAndKept ==
    /\ assoc_out.done
    /\ \E k \in DOMAIN assoc_out.assigned :
          assoc_in.iou[assoc_out.assigned[k][1]][assoc_out.assigned[k][2]]
              < iou_threshold
    /\ \E k \in DOMAIN assoc_out.matches :
          assoc_in.iou[assoc_out.matches[k][1]][assoc_out.matches[k][2]]
              = iou_threshold

\* C11: the matches returned by associate_detections_to_trackers are the
\* pairs of some one-to-one assignment of least total cost (cost = 1 - IOU,
\* that is of greatest total IOU), minus the pairs of IOU below
\* iou_threshold.
C11_MatchesOfOptimum ==
    assoc_out.done =>
        \E X \in Matchings(assoc_in.nd, assoc_in.nt) :
            /\ \A Y \in Matchings(assoc_in.nd, assoc_in.nt) :
                  TotalIou(Y, assoc_in.iou) <= TotalIou(X, assoc_in.iou)
            /\ {assoc_out.matches[k] : k \in DOMAIN assoc_out.matches}
                  = {p \in X : assoc_in.iou[p[1]][p[2]] >= iou_threshold}

\* C12: spike_detected is false in each of the first 9 analyze_frame
\* calls of an instance, whatever the kinetic energies of these frames.
C12_NoSpikeBeforeWarmUp ==
    (an_frame_count >= 1 /\ an_frame_count <= 9) => ~snapshot.spike_detected

\* The 10th call has reported a spike.
C12_SpikeOnTenthCall ==
    /\ an_frame_count = 10
    /\ snapshot.frame_count = 10
    /\ snapshot.spike_detected

\* C13: once the window holds at least 10 samples, a spike is reported
\* exactly when current_ke > moving_average * KE_SPIKE_FACTOR, the moving
\* average being the mean of the window (also when the window holds only
\* zeros, where it is not reported).
C13_SpikeIffAboveFactor ==
    Len(ke_history) >= 10 =>
        (snapshot.spike_detected <=>
            snapshot.current * Len(ke_history)
                > KE_SPIKE_FACTOR * Sum(ke_history))

\* A spike is reported over a window of more than 10 samples whose mean
\* is not the current value alone.
C13_SpikeOverMovingAverage ==
    /\ Len(ke_history) > 10
    /\ snapshot.spike_detected
    /\ Moving(ke_history) = 2

\* C14: after n analyze_frame calls the history holds the current_ke of the
\* last min(n, KE_MOVING_AVG_WINDOW) calls in arrival order, and the
\* reported moving average is the mean of the history, the current frame's
\* value included.
C14_WindowIsLastSamples ==
    LET n == Len(ke_all)
        w == Len(ke_history)
    IN /\ an_frame_count = n
       /\ w = Min(n, KE_MOVING_AVG_WINDOW)
       /\ \A k \in 1..w : ke_history[k] = ke_all[n - w + k]
       /\ n > 0 =>
             /\ snapshot.current = ke_all[n]
             /\ snapshot.moving_average = [sum |-> Sum(ke_history), n |-> w]

\* The window is full, its oldest sample, a moving one, has been evicted
\* and a later moving sample is still in it.
C14_OldestEvicted ==
    /\ Len(ke_all) > KE_MOVING_AVG_WINDOW
    /\ ke_all[1] > 0
    /\ Moving(ke_history) = 1
    /\ Moving(ke_all) = 2

\* C15: calculate_crowd_density counts every track in exactly one cell,
\* row floor(cy / cell_height) and column floor(cx / cell_width) clamped to
\* the grid; the counts sum to the number of tracks and max_density is the
\* largest count.
FloorClamped(a, b, n) ==
    LET f == a \div b IN IF f < 0 THEN 0 ELSE IF f > n - 1 THEN n - 1 ELSE f

FloorCell(c) ==
    <<FloorClamped(c[2], 48, 10), FloorClamped(c[1], 64, 10)>>

C15_OneCellPerTrack ==
    density_out.done =>
        /\ DOMAIN density_out.grid = (0..9) \X (0..9)
        /\ \A cell \in (0..9) \X (0..9) :
              density_out.grid[cell] =
                 Cardinality({k \in DOMAIN density_in :
                                 FloorCell(density_in[k]) = cell})
        /\ \A k \in DOMAIN density_in :
              density_out.grid[FloorCell(density_in[k])] >= 1
        /\ \A cell \in (0..9) \X (0..9) :
              density_out.grid[cell] <= density_out.max_density
        /\ \E cell \in (0..9) \X (0..9) :
              density_out.grid[cell] = density_out.max_density

\* A centre left of and above the frame and a centre beyond it are counted
\* in the corner cells, and two tracks share a cell.
C15_ClampedCentres ==
    /\ density_out.done
    /\ \E k \in DOMAIN density_in : density_in[k] = <<0 - 1, 0 - 1>>
    /\ \E k \in DOMAIN density_in : density_in[k] = <<640, 480>>
    /\ density_out.grid[<<9, 9>>] = 1
    /\ density_out.max_density = 2

\* C16: calculate_motion_coherence returns 0 whenever fewer than two of the
\* input tracks have a speed above 0.1.
C16_FewMoversZero ==
    coherence_out.done =>
        (Cardinality({k \in DOMAIN coherence_in :
            coherence_in[k][1] * coherence_in[k][1]
              + coherence_in[k][2] * coherence_in[k][2] > 1}) < 2
           => coherence_out.std_deviation = 0)

\* Three tracks, one of them moving and one of speed exactly 0.1.
C16_OneMoverOfThree ==
    /\ coherence_out.done
    /\ Len(coherence_in) = 3
    /\ coherence_in[1] = <<0, 20>>
    /\ coherence_in[2] = <<1, 0>>
    /\ coherence_in[3] = <<0, 0>>
    /\ coherence_out.std_deviation = 0

Tracks(seq) == {seq[k] : k \in DOMAIN seq}

\* C17: an update with no detections is processed as a frame: every track
\* that exists at its start has age and time_since_update increased by 1
\* and hits unchanged (also a track the update removes), no track is
\* created and the returned list is empty.
EmptyFrameAges ==
    (sort_frame_count' = sort_frame_count + 1 /\ last_dets' = <<>>) =>
        /\ ret' = <<>>
        /\ count' = count
        /\ \A k \in DOMAIN trackers' :
              \E j \in DOMAIN trackers : trackers[j].id = trackers'[k].id
        /\ \A j \in DOMAIN trackers :
              \E t \in Tracks(trackers') \cup Tracks(last_deleted') :
                  /\ t.id = trackers[j].id
                  /\ t.age = trackers[j].age + 1
                  /\ t.time_since_update = trackers[j].time_since_update + 1
                  /\ t.hits = trackers[j].hits

C17_EmptyFrameProcessed == [][EmptyFrameAges]_vars

\* An update with no detections has aged a track that was matched before.
C17_AgedWithoutDetections ==
    /\ last_dets = <<>>
    /\ ret = <<>>
    /\ \E k \in DOMAIN trackers :
          /\ trackers[k].hits >= 1
          /\ trackers[k].time_since_update = 1
          /\ trackers[k].age >= 2

\* The two-frame example: two tracks created on frame 1 from two boxes of
\* positive area, both matched on frame 2.
TwoFrameExample ==
    /\ sort_frame_count = 2
    /\ Len(trackers) = 2
    /\ \A k \in DOMAIN trackers :
          /\ trackers[k].born = 1
          /\ trackers[k].finite
          /\ trackers[k].misses = 0

\* C18, as the code has it: frame 1 of two boxes on a fresh tracker creates
\* exactly 2 tracks with time_since_update = 0, and after frame 2 has
\* matched both, each has hits = 1 (the creation is no hit).
C18_TwoFrameHitsOne ==
    /\ (sort_frame_count = 1 /\ Len(last_dets) = 2) =>
          /\ Len(trackers) = 2
          /\ \A k \in DOMAIN trackers :
                trackers[k].time_since_update = 0 /\ trackers[k].hits = 0
    /\ TwoFrameExample =>
          \A k \in DOMAIN trackers :
              trackers[k].time_since_update = 0 /\ trackers[k].hits = 1

\* C18, as stated: after frame 2 each of the two tracks has hits = 2.
C18_TwoFrameHitsTwo ==
    TwoFrameExample => \A k \in DOMAIN trackers : trackers[k].hits = 2

\* The example has happened: both tracks matched and returned on frame 2.
C18_BothMatched ==
    /\ TwoFrameExample
    /\ Len(last_dets) = 2
    /\ Len(ret) = 2

\* C19: a track whose predicted bbox is not finite (it holds a NaN or an
\* infinite value) is removed by that frame's update before the
\* association, and the update does to the other tracks what it does when
\* the removed track is not in the collection.
NonFiniteContained ==
    (sort_frame_count' = sort_frame_count + 1
       /\ \E k \in DOMAIN trackers :
             ~trackers[k].finite \/ trackers[k].overflow) =>
        LET clean == SelectSeq(trackers,
                               LAMBDA t : t.finite /\ ~t.overflow)
        IN /\ \A k \in DOMAIN trackers :
                 (~trackers[k].finite \/ trackers[k].overflow) =>
                     /\ \A j \in DOMAIN trackers' :
                           trackers'[j].id # trackers[k].id
                     /\ \A j \in DOMAIN ret' :
                           ret'[j].id # trackers[k].id + 1
           /\ \E assoc \in FrameAssociations(clean, last_dets') :
                 LET u == SortUpdateWith(clean, count, sort_frame_count',
                                         last_dets', assoc)
                 IN /\ trackers' = u.trackers
                    /\ ret' = u.ret
                    /\ count' = u.count

C19_NonFiniteRemoved == [][NonFiniteContained]_vars

\* C20: a detection whose bbox has zero height or width is skipped: the
\* tracks an update creates are at most as many as its detections of
\* positive area, and no track comes from a detection of zero area.
C20_DegenerateSkipped ==
    /\ Cardinality({k \in DOMAIN trackers :
                       trackers[k].born = sort_frame_count})
          <= Cardinality({d \in DOMAIN last_dets : last_dets[d].valid})
    /\ \A k \in DOMAIN trackers : trackers[k].finite

\* C21: two Sort objects in one process share no state: the tracks (their
\* ids included) and the returned rows of the first object are those it
\* has when it is given the same frames with no other object around,
\* whatever frames the second object has processed.
C21_InstancesIndependent ==
    /\ trackers = twin.alone.trackers
    /\ ret = twin.alone.ret

\* C22: every stream the server serves feeds its frames to a pipeline of
\* its own: the frames that one pipeline has taken come from one stream,
\* and no two process_frame calls on one pipeline overlap in time.
C22_StreamsOwnPipelines ==
    /\ Cardinality(mutators) <= 1
    /\ Cardinality(inside) <= 1

\* C30: manager.active_connections holds exactly the WebSocket clients
\* that are being served: a client whose handler has ended is not in it.
C30_ActiveAreServed ==
    \A s \in StreamIds :
        (\E k \in DOMAIN active_connections : active_connections[k] = s)
            <=> (streams[s].kind = "ws"
                   /\ streams[s].pc \in {"serving", "processing"})

\* C23: for every bbox of positive width and height,
\* convert_x_to_bbox(convert_bbox_to_z(b)) is b.
C23_RoundTrip == convert_out.done => convert_out.bbox = convert_in

\* A box that is not square and starts left of the origin went there and
\* back.
C23_WideBoxConverted ==
    /\ convert_out.done
    /\ convert_in.x1 < 0
    /\ convert_in.x2 - convert_in.x1 = 64
    /\ convert_in.y2 - convert_in.y1 = 5

\* C24: a track whose predicted bbox holds no NaN is removed by an update
\* only if its time_since_update at the end of the frame is greater than
\* max_age, and after every update every track of the collection has
\* time_since_update <= max_age.
RemovedOnlyWhenOld ==
    sort_frame_count' = sort_frame_count + 1 =>
        /\ \A j \in DOMAIN trackers :
              trackers[j].finite =>
                  \/ \E k \in DOMAIN trackers' :
                        trackers'[k].id = trackers[j].id
                  \/ \E k \in DOMAIN last_deleted' :
                        /\ last_deleted'[k].id = trackers[j].id
                        /\ last_deleted'[k].time_since_update > max_age
        /\ \A k \in DOMAIN trackers' :
              trackers'[k].time_since_update <= max_age

C24_RemovedOnlyWhenOld == [][RemovedOnlyWhenOld]_vars

\* An update removed a track of age max_age + 1 and kept one that was
\* unmatched for max_age frames.
C24_OldRemovedYoungKept ==
    /\ \E k \in DOMAIN last_deleted :
          /\ last_deleted[k].finite
          /\ last_deleted[k].time_since_update = max_age + 1
    /\ \E k \in DOMAIN trackers : trackers[k].time_since_update = max_age

\* C25: a track created on a frame after frame min_hits is not returned in
\* its creation frame, and it is returned exactly in the frames in which a
\* detection was matched to it and min_hits or more consecutive matched
\* frames end: the first of them is the min_hits-th matched frame in a row.
C25_LateTrackNeedsStreak ==
    \A k \in DOMAIN trackers :
        trackers[k].born > min_hits =>
            /\ trackers[k].born = sort_frame_count => ~InRet(trackers[k])
            /\ InRet(trackers[k]) <=>
                  (trackers[k].misses = 0 /\ trackers[k].run >= min_hits)

\* A track created on frame min_hits + 1 is returned after min_hits matched
\* frames.
C25_LateTrackReturned ==
    \E k \in DOMAIN trackers :
        /\ trackers[k].born = min_hits + 1
        /\ trackers[k].run = min_hits
        /\ InRet(trackers[k])

\* C26: at the end of a frame in which a track was matched, its hit_streak
\* is the number of consecutive matched frames that end at this frame; hits
\* is the number of all its matches and never decreases.
StreakCountsRun ==
    /\ \A k \in DOMAIN trackers' :
          /\ trackers'[k].hits = trackers'[k].matched
          /\ (trackers'[k].misses = 0 /\ trackers'[k].age >= 1) =>
                trackers'[k].hit_streak = trackers'[k].run
    /\ \A j \in DOMAIN trackers, k \in DOMAIN trackers' :
          trackers'[k].id = trackers[j].id =>
              trackers'[k].hits >= trackers[j].hits

C26_StreakCountsRun == [][StreakCountsRun]_vars

\* A track is matched again after a gap: its streak restarts at 1 and its
\* hits go on.
C26_MatchedAfterGap ==
    \E k \in DOMAIN trackers :
        /\ trackers[k].hits >= 2
        /\ trackers[k].run = 1
        /\ trackers[k].hit_streak = 1
        /\ trackers[k].time_since_update = 0

\* C27: after every update the tracks with time_since_update = 0 are the
\* tracks a detection of the frame was matched to and the tracks the frame
\* created (with hits = 0 and hit_streak = 0), one for each detection.
C27_OneFreshTrackPerDetection ==
    LET fresh == {k \in DOMAIN trackers : trackers[k].time_since_update = 0}
        matchedNow == {k \in DOMAIN trackers :
                         trackers[k].misses = 0 /\ trackers[k].age >= 1}
        createdNow == {k \in DOMAIN trackers :
                         trackers[k].born = sort_frame_count}
    IN sort_frame_count >= 1 =>
          /\ fresh = matchedNow \cup createdNow
          /\ matchedNow \cap createdNow = {}
          /\ Cardinality(fresh) = Len(last_dets)
          /\ \A k \in createdNow :
                /\ trackers[k].hits = 0
                /\ trackers[k].hit_streak = 0
                /\ trackers[k].age = 0

\* A frame of two detections matched one track and created another.
C27_MatchedAndCreated ==
    /\ Len(last_dets) = 2
    /\ \E k \in DOMAIN trackers :
          trackers[k].misses = 0 /\ trackers[k].age >= 1
    /\ \E k \in DOMAIN trackers : trackers[k].born = sort_frame_count

\* C28: after any sequence of process_frame calls the frame counts of the
\* pipeline, of its tracker and of its analytics are equal, and the
\* snapshot of the k-th call carries frame_count = k.
C28_FrameCountsEqual ==
    /\ pipe_frame_count = sort_frame_count
    /\ sort_frame_count = an_frame_count
    /\ outcome = "returned" => snapshot.frame_count = pipe_frame_count

\* C29: for every track of the collection at the end of a frame, age is
\* the number of frames processed after the frame that created it,
\* hits <= age, hit_streak <= hits, 0 <= time_since_update <= age, and
\* time_since_update >= 2 implies hit_streak = 0.
C29_TrackCounters ==
    \A k \in DOMAIN trackers :
        /\ trackers[k].age = sort_frame_count - trackers[k].born
        /\ trackers[k].hits <= trackers[k].age
        /\ trackers[k].hit_streak <= trackers[k].hits
        /\ 0 <= trackers[k].time_since_update
        /\ trackers[k].time_since_update <= trackers[k].age
        /\ trackers[k].time_since_update >= 2 => trackers[k].hit_streak = 0

\* A track that was matched and then missed for two frames.
C29_MatchedThenMissed ==
    \E k \in DOMAIN trackers :
        /\ trackers[k].hits >= 1
        /\ trackers[k].time_since_update = 2
        /\ trackers[k].age >= 3

====
